---- MODULE Spec2Model ----
(***************************************************************************)
(* A model of git-reviewer's core (package gitreviewers):                  *)
(*   - the Filter Policy       considerExt / considerPath  (reviewers.go)   *)
(*   - the Stat Aggregator     Stats.AddToSet, Stats.Less  (reviewers.go)   *)
(*   - the Reviewer Finder     FindReviewers + mergeChans  (reviewers.go)   *)
(* Strings that the code inspects character by character (paths, filter    *)
(* entries) are sequences of one-character strings; reviewer identities,   *)
(* which the code only compares and measures for emptiness, are strings.   *)
(***************************************************************************)
EXTENDS Integers, Sequences, FiniteSets, TLC

-----------------------------------------------------------------------------
(* Bounds of the model                                                     *)

\* most entries in each of the four filter lists of a Reviewer
MaxEntries == 2
\* most Stat values handed to AddToSet in one run of the aggregator check
MaxAdds == 3
\* largest commit count of a single Stat in the aggregator check
MaxCount == 2
\* most paths handed to FindReviewers
MaxPaths == 3
\* most names in the output of git diff
MaxDiffLines == 2

-----------------------------------------------------------------------------
(* Generic helpers                                                         *)

Range(s) == { s[i] : i \in 1..Len(s) }

SeqsUpTo(S, n) == UNION { [1..k -> S] : k \in 0..n }

Min(a, b) == IF a < b THEN a ELSE b

-----------------------------------------------------------------------------
(* Strings: package strings, as used by the filters                        *)

\* strings.HasSuffix(s, suffix):
\*   len(s) >= len(suffix) && s[len(s)-len(suffix):] == suffix
HasSuffix(s, suffix) ==
    /\ Len(s) >= Len(suffix)
    /\ SubSeq(s, Len(s) - Len(suffix) + 1, Len(s)) = suffix

\* strings.HasPrefix(s, prefix):
\*   len(s) >= len(prefix) && s[0:len(prefix)] == prefix
HasPrefix(s, prefix) ==
    /\ Len(s) >= Len(prefix)
    /\ SubSeq(s, 1, Len(prefix)) = prefix

\* strings.TrimPrefix(s, prefix): s without the leading prefix, or s itself
TrimPrefix(s, prefix) ==
    IF HasPrefix(s, prefix) THEN SubSeq(s, Len(prefix) + 1, Len(s)) ELSE s

\* the string literals of the model
s_empty  == << >>
s_svg    == <<"s", "v", "g">>
s_json   == <<"j", "s", "o", "n">>
s_nock   == <<"n", "o", "c", "k">>
s_xml    == <<"x", "m", "l">>
s_go     == <<"g", "o">>
s_vendor == <<"v", "e", "n", "d", "o", "r">>
p_a_go        == <<"a", ".">> \o s_go
p_b_json      == <<"b", ".">> \o s_json
p_vendor_c_go == s_vendor \o <<"/", "c", ".">> \o s_go
p_i_svg       == <<"i", ".">> \o s_svg
p_vendo       == <<"v", "e", "n", "d", "o">>

-----------------------------------------------------------------------------
(* Filter Policy                                                           *)

\* var defaultIgnoreExt = []string{"svg", "json", "nock", "xml"}
defaultIgnoreExt == << s_svg, s_json, s_nock, s_xml >>

\* the loop over OnlyExtensions giving up after its first entry
anyHasSuffixFirstOnly(path, exts, i) ==
    i <= Len(exts) /\ HasSuffix(path, exts[i])

\* the loop of considerExt over OnlyExtensions: true at the first entry the
\* path ends with, false when the loop runs out
RECURSIVE anyHasSuffix(_, _, _)
anyHasSuffix(path, exts, i) ==
    IF i > Len(exts) THEN FALSE
    ELSE IF HasSuffix(path, exts[i]) THEN TRUE
    ELSE anyHasSuffix(path, exts, i + 1)

\* the loop of considerExt over ignExt:
\*   passes = passes && !strings.HasSuffix(path, ext)
RECURSIVE passesIgnExt(_, _, _, _)
passesIgnExt(path, exts, i, passes) ==
    IF i > Len(exts) THEN passes
    ELSE passesIgnExt(path, exts, i + 1, passes /\ ~HasSuffix(path, exts[i]))

\* the effective ignore list without the built-in defaults
ignExtOfCallerOnly(opts) == opts.IgnoredExtensions

\* ignExt := defaultIgnoreExt ++ opts.IgnoredExtensions
ignExtOf(opts) == defaultIgnoreExt \o opts.IgnoredExtensions

considerExt(path, opts) ==
    LET ignExt  == ignExtOf(opts)
        lAllow  == Len(opts.OnlyExtensions)
        lIgnore == Len(ignExt)
    IN  IF lAllow = 0 /\ lIgnore = 0 THEN TRUE
        ELSE IF lAllow > 0 THEN anyHasSuffix(path, opts.OnlyExtensions, 1)
        ELSE IF lIgnore > 0 THEN passesIgnExt(path, ignExt, 1, TRUE)
        ELSE FALSE

\* the loop over OnlyPaths asking for a non-empty remainder after the prefix
RECURSIVE anyStrictPrefix(_, _, _)
anyStrictPrefix(path, prefixes, i) ==
    IF i > Len(prefixes) THEN FALSE
    ELSE IF HasPrefix(path, prefixes[i]) /\ Len(prefixes[i]) > 0
            /\ Len(TrimPrefix(path, prefixes[i])) > 0 THEN TRUE
    ELSE anyStrictPrefix(path, prefixes, i + 1)

\* the loop of considerPath over OnlyPaths:
\*   if len(strings.TrimPrefix(path, prefix)) < pLen { return true }
RECURSIVE anyTrimShortens(_, _, _)
anyTrimShortens(path, prefixes, i) ==
    IF i > Len(prefixes) THEN FALSE
    ELSE IF Len(TrimPrefix(path, prefixes[i])) < Len(path) THEN TRUE
    ELSE anyTrimShortens(path, prefixes, i + 1)

\* the loop over IgnoredPaths with "passes =" in place of "passes = passes &&"
RECURSIVE passesIgnPathLastOnly(_, _, _, _)
passesIgnPathLastOnly(path, prefixes, i, passes) ==
    IF i > Len(prefixes) THEN passes
    ELSE passesIgnPathLastOnly(path, prefixes, i + 1,
                               Len(TrimPrefix(path, prefixes[i])) = Len(path))

\* the loop of considerPath over IgnoredPaths:
\*   passes = passes && len(strings.TrimPrefix(path, prefix)) == pLen
RECURSIVE passesIgnPath(_, _, _, _)
passesIgnPath(path, prefixes, i, passes) ==
    IF i > Len(prefixes) THEN passes
    ELSE passesIgnPath(path, prefixes, i + 1,
                       passes /\ Len(TrimPrefix(path, prefixes[i])) = Len(path))

considerPath(path, opts) ==
    LET lAllow  == Len(opts.OnlyPaths)
        lIgnore == Len(opts.IgnoredPaths)
    IN  IF lAllow = 0 /\ lIgnore = 0 THEN TRUE
        ELSE IF lAllow > 0 THEN anyTrimShortens(path, opts.OnlyPaths, 1)
        ELSE IF lIgnore > 0 THEN passesIgnPath(path, opts.IgnoredPaths, 1, TRUE)
        ELSE FALSE

-----------------------------------------------------------------------------
(* Stat Aggregator                                                         *)

\* type Stat struct { Reviewer string; Count int }
Stat(r, c) == [Reviewer |-> r, Count |-> c]

\* func (cs *Stat) String(): fmt.Sprintf("  %d\t%s", cs.Count, cs.Reviewer);
\* a line is kept field by field: two spaces, the count, a tab, the identity
String(stat) ==
    [indent |-> "  ", count |-> stat.Count, sep |-> "\t", reviewer |-> stat.Reviewer]

\* Less with the comparison turned around
LessFlipped(s, i, j) == s[i].Count > s[j].Count

\* func (s Stats) Less(i, j): s[i].Count < s[j].Count
Less(s, i, j) == s[i].Count < s[j].Count

\* sort.Reverse(s).Less(i, j) is s.Less(j, i)
ReverseLess(s, i, j) == Less(s, j, i)

\* the scan of AddToSet: the first index whose Reviewer equals r, 0 if none
RECURSIVE indexOfReviewer(_, _, _)
indexOfReviewer(s, r, i) ==
    IF i > Len(s) THEN 0
    ELSE IF s[i].Reviewer = r THEN i
    ELSE indexOfReviewer(s, r, i + 1)

\* AddToSet with "=" in place of "+="
AddToSetOverwrite(s, val) ==
    LET i == indexOfReviewer(s, val.Reviewer, 1)
    IN  IF i > 0 THEN [s EXCEPT ![i].Count = val.Count]
        ELSE Append(s, val)

\* AddToSet without the scan for the reviewer
AddToSetAppend(s, val) == Append(s, val)

\* func (s Stats) AddToSet(val Stat) Stats
AddToSet(s, val) ==
    LET i == indexOfReviewer(s, val.Reviewer, 1)
    IN  IF i > 0 THEN [s EXCEPT ![i].Count = @ + val.Count]
        ELSE Append(s, val)

\* func (s Stats) Swap(i, j)
Swap(s, i, j) == [s EXCEPT ![i] = s[j], ![j] = s[i]]

\* package sort, insertionSort's inner loop on sort.Reverse(s):
\*   for j := i; j > a && data.Less(j, j-1); j-- { data.Swap(j, j-1) }
RECURSIVE sinkDown(_, _)
sinkDown(s, j) ==
    IF j > 1 /\ ReverseLess(s, j, j - 1)
    THEN sinkDown(Swap(s, j, j - 1), j - 1)
    ELSE s

\* package sort, insertionSort: for i := a + 1; i < b; i++ { inner loop }
RECURSIVE insertionSort(_, _)
insertionSort(s, i) ==
    IF i > Len(s) THEN s ELSE insertionSort(sinkDown(s, i), i + 1)

\* package sort before Go 1.19, the tail of quickSort (first index a + 6):
\*   for i := a + 6; i < b; i++ { if data.Less(i, i-6) { data.Swap(i, i-6) } }
RECURSIVE shellPass(_, _)
shellPass(s, i) ==
    IF i > Len(s) THEN s
    ELSE shellPass(IF ReverseLess(s, i, i - 6) THEN Swap(s, i, i - 6) ELSE s,
                   i + 1)

\* the collection left as it arrived
SortReverseSkipped(s) == { s }

\* sort.Sort(sort.Reverse(s)) on at most 12 elements.  Sort "is not guaranteed
\* to be stable"; what it does depends on the toolchain: insertionSort alone
\* (the pdqsort of Go 1.19 and later), or quickSort's ShellSort pass with gap 6
\* followed by insertionSort (the releases before).  Both outcomes are kept.
SortReverse(s) ==
    { insertionSort(s, 2), insertionSort(shellPass(s, 7), 2) }

\* the range loop leaving after the first Stat of a received value
mergeStatsFirstOnly(final, stats, i) ==
    IF Len(stats) >= i /\ stats[i].Reviewer # ""
    THEN AddToSet(final, stats[i]) ELSE final

\* the range loop without the test of the Reviewer's length
RECURSIVE mergeStatsKeepEmpty(_, _, _)
mergeStatsKeepEmpty(final, stats, i) ==
    IF i > Len(stats) THEN final
    ELSE mergeStatsKeepEmpty(AddToSet(final, stats[i]), stats, i + 1)

\* the body of FindReviewers' range loop over one received Stats value:
\*   for _, stat := range stats { if len(stat.Reviewer) > 0 { AddToSet } }
RECURSIVE mergeStats(_, _, _)
mergeStats(final, stats, i) ==
    IF i > Len(stats) THEN final
    ELSE mergeStats(IF stats[i].Reviewer # "" THEN AddToSet(final, stats[i])
                    ELSE final,
                    stats, i + 1)

\* maxStats := 3
maxStats == 3

\* if l := len(finalStats); l < maxStats { maxStats = l }
maxStatsOf(final) == IF Len(final) < maxStats THEN Len(final) ELSE maxStats

\* for _, stat := range finalStats[:maxStats] { results = append(.., stat.String()) }
topLines(final) ==
    [i \in 1..maxStatsOf(final) |-> String(final[i])]

-----------------------------------------------------------------------------
(* State                                                                   *)

VARIABLES
    \* Reviewer Finder: one call of FindReviewers(paths)
    paths,       \* the argument: a sequence of path ids
    provider,    \* per path: what the History Provider holds and whether the query fails
    since,       \* the Reviewer's Since
    queries,     \* the history queries issued: per query its path and its lower time bound
    pc,          \* position of FindReviewers
    cs,          \* []chan Stats, one per path: "open" or "closed"
    out,         \* the channel made by mergeChans: "nil", "open" or "closed"
    wg,          \* the sync.WaitGroup counter of mergeChans
    mpc,         \* position of the goroutine started by mergeChans
    spawned,     \* number of forwarders that goroutine has started
    qpc,         \* per path: position of the query goroutine behind cs[i]
    fpc,         \* per path: position of the forwarder goroutine
    held,        \* per path: the Stats a forwarder received and has yet to send
    stats,       \* the loop variable of "for stats := range data"
    finalStats,  \* the aggregator
    results,     \* the returned lines
    err,         \* the returned error: "unset", "nil" or "error"
    \* Stat Aggregator exercised alone
    input,       \* the Stat values to add
    order,       \* a second order of adding them: a permutation of the indices
    setA,        \* the collection after adding input[1..added] in input order
    setB,        \* the collection after adding them in the order 'order'
    added,       \* number of values added so far
    \* Filter Policy exercised alone
    fpath,       \* the path under consideration
    opts,        \* the Reviewer: its four filter lists
    fstep,       \* "ext", "path" or "done"
    extOk,       \* result of considerExt(fpath, opts)
    pathOk,      \* result of considerPath(fpath, opts)
    \* the operations on the History Provider, one call of one of them
    call,        \* "FindFiles", "BranchBehind", "committerCounts" or "none"
    gitrun,      \* what the shell commands of that call do: fail, or print
    ret          \* what the call returned: [val, err]; err is "pending" before

pvars == << paths, provider, since, queries, pc, cs, out, wg, mpc, spawned, qpc, fpc, held,
            stats, finalStats, results, err >>
svars == << input, order, setA, setB, added >>
fvars == << fpath, opts, fstep, extOk, pathOk >>
gvars == << call, gitrun, ret >>
vars  == << pvars, svars, fvars, gvars >>

-----------------------------------------------------------------------------
(* History Provider                                                        *)

\* the Stats a query can parse out of the history of one path
QueryResults ==
    { << >>,
      << Stat("alice", 2) >>,
      << Stat("bob", 1), Stat("alice", 1) >>,
      << Stat("", 1), Stat("carol", 1), Stat("dave", 1), Stat("erin", 1),
         Stat("frank", 1), Stat("gina", 2) >> }

\* a path's history and whether the commands that read it fail
ProviderOutcomes ==
    { [fails |-> FALSE, log |-> q] : q \in QueryResults }
    \cup { [fails |-> TRUE, log |-> << Stat("bob", 1), Stat("alice", 1) >>] }

\* committerCounts handing back the history although the command failed
committerCountsDespiteError(i) == provider[i].log

\* committerCounts: on a failed command it returns the still-empty stats
\* beside the error; otherwise the parsed (reviewer, count) pairs
committerCounts(i) ==
    IF provider[i].fails THEN << >> ELSE provider[i].log

-----------------------------------------------------------------------------
(* Reviewer Finder: FindReviewers, the query goroutines, mergeChans        *)

PathIdx == 1..Len(paths)

PipelineIdle ==
    /\ paths = << >> /\ provider = << >> /\ pc = "idle"
    /\ since = "" /\ queries = << >>
    /\ cs = << >> /\ out = "nil" /\ wg = 0 /\ mpc = "none" /\ spawned = 0
    /\ qpc = << >> /\ fpc = << >> /\ held = << >>
    /\ stats = << >> /\ finalStats = << >> /\ results = << >> /\ err = "unset"

\* values of Reviewer.Since: the date gitsh.go names, and another
SinceValues == { "2015-01-01", "2016-06-01" }

\* the query that committerCounts(path, r.Since) makes: the committerCounts of
\* gitsh.go takes the path alone and finds the first commit of its range with
\* "git log --since 2015-01-01" (it has a TODO for reading the date from the
\* options)
queryOf(path, s) == [path |-> path, since |-> "2015-01-01"]

\* the state at entry of FindReviewers: finalStats = make(Stats, 0)
PipelineInit ==
    /\ \E n \in 0..MaxPaths :
         /\ paths = [i \in 1..n |-> i]
         /\ provider \in [1..n -> ProviderOutcomes]
    /\ since \in SinceValues
    /\ queries = << >>
    /\ pc = "start"
    /\ cs = << >> /\ out = "nil" /\ wg = 0 /\ mpc = "none" /\ spawned = 0
    /\ qpc = << >> /\ fpc = << >> /\ held = << >>
    /\ stats = << >> /\ finalStats = << >> /\ results = << >> /\ err = "unset"

\* for _, path := range paths { cs = append(cs, committerCounts(path, r.Since)) }
\* each call starts the query for one path and returns its channel
LaunchQueries ==
    /\ pc = "start"
    /\ cs'   = [i \in PathIdx |-> "open"]
    /\ qpc'  = [i \in PathIdx |-> "send"]
    /\ fpc'  = [i \in PathIdx |-> "none"]
    /\ held' = [i \in PathIdx |-> << >>]
    /\ queries' = [i \in PathIdx |-> queryOf(paths[i], since)]
    /\ pc' = "merge"
    /\ UNCHANGED << svars, fvars, gvars, paths, provider, since, out, wg, mpc, spawned, stats, finalStats,
                    results, err >>

\* data := mergeChans(cs...): out := make(chan Stats); go func() {...}(); return out
CallMergeChans ==
    /\ pc = "merge"
    /\ out' = "open"
    /\ mpc' = "add"
    /\ pc' = "range"
    /\ UNCHANGED << svars, fvars, gvars, paths, provider, since, queries, cs, wg, spawned, qpc, fpc, held, stats,
                    finalStats, results, err >>

\* mergeChans without the wg.Add
WgAddNothing ==
    /\ mpc = "add"
    /\ mpc' = IF Len(cs) = 0 THEN "wait" ELSE "spawn"
    /\ UNCHANGED << svars, fvars, gvars, paths, provider, since, queries, pc, cs, out, wg, spawned,
                    qpc, fpc, held, stats, finalStats, results, err >>

\* wg.Add(len(cs))
WgAdd ==
    /\ mpc = "add"
    /\ wg' = wg + Len(cs)
    /\ mpc' = IF Len(cs) = 0 THEN "wait" ELSE "spawn"
    /\ UNCHANGED << svars, fvars, gvars, paths, provider, since, queries, pc, cs, out, spawned, qpc, fpc, held, stats,
                    finalStats, results, err >>

\* for _, ch := range cs { go func(ch chan Stats) {...}(ch) }: one iteration
SpawnForwarder ==
    /\ mpc = "spawn"
    /\ spawned < Len(cs)
    /\ spawned' = spawned + 1
    /\ fpc' = [fpc EXCEPT ![spawned + 1] = "recv"]
    /\ mpc' = IF spawned + 1 = Len(cs) THEN "wait" ELSE "spawn"
    /\ UNCHANGED << svars, fvars, gvars, paths, provider, since, queries, pc, cs, out, wg, qpc, held, stats,
                    finalStats, results, err >>

\* wg.Wait() that returns while forwarders are still running
WgWaitEarly ==
    /\ mpc = "wait"
    /\ mpc' = "close"
    /\ UNCHANGED << svars, fvars, gvars, paths, provider, since, queries, pc, cs, out, wg, spawned, qpc, fpc, held,
                    stats, finalStats, results, err >>

\* wg.Wait() returns once the counter is zero
WgWait ==
    /\ mpc = "wait"
    /\ wg = 0
    /\ mpc' = "close"
    /\ UNCHANGED << svars, fvars, gvars, paths, provider, since, queries, pc, cs, out, wg, spawned, qpc, fpc, held,
                    stats, finalStats, results, err >>

\* defer close(out)
CloseOut ==
    /\ mpc = "close"
    /\ out' = "closed"
    /\ mpc' = "done"
    /\ UNCHANGED << svars, fvars, gvars, paths, provider, since, queries, pc, cs, wg, spawned, qpc, fpc, held, stats,
                    finalStats, results, err >>

\* a forwarder that adds what it receives to the aggregator itself
DeliverIntoAggregator(i) ==
    /\ qpc[i] = "send"
    /\ fpc[i] = "recv"
    /\ finalStats' = mergeStats(finalStats, committerCounts(i), 1)
    /\ qpc' = [qpc EXCEPT ![i] = "close"]
    /\ UNCHANGED << svars, fvars, gvars, paths, provider, since, queries, pc, cs, out, wg, mpc, spawned, fpc, held,
                    stats, results, err >>

\* the query of path i sends its Stats on the unbuffered cs[i] and forwarder i
\* receives them ("for stats := range ch"); "if len(stats) > 0" decides
\* whether the forwarder goes on to send them to out
Deliver(i) ==
    /\ qpc[i] = "send"
    /\ fpc[i] = "recv"
    /\ LET v == committerCounts(i)
       IN  /\ held' = [held EXCEPT ![i] = IF Len(v) > 0 THEN v ELSE << >>]
           /\ fpc'  = [fpc EXCEPT ![i] = IF Len(v) > 0 THEN "send" ELSE "recv"]
    /\ qpc' = [qpc EXCEPT ![i] = "close"]
    /\ UNCHANGED << svars, fvars, gvars, paths, provider, since, queries, pc, cs, out, wg, mpc, spawned, stats,
                    finalStats, results, err >>

\* a failed query may also close its channel without sending anything
QuerySkip(i) ==
    /\ qpc[i] = "send"
    /\ provider[i].fails
    /\ qpc' = [qpc EXCEPT ![i] = "close"]
    /\ UNCHANGED << svars, fvars, gvars, paths, provider, since, queries, pc, cs, out, wg, mpc, spawned, fpc, held,
                    stats, finalStats, results, err >>

\* the query of path i closes cs[i]
QueryClose(i) ==
    /\ qpc[i] = "close"
    /\ cs' = [cs EXCEPT ![i] = "closed"]
    /\ qpc' = [qpc EXCEPT ![i] = "done"]
    /\ UNCHANGED << svars, fvars, gvars, paths, provider, since, queries, pc, out, wg, mpc, spawned, fpc, held, stats,
                    finalStats, results, err >>

\* a forwarder that ends without the deferred wg.Done()
ForwarderDoneNoDone(i) ==
    /\ fpc[i] = "recv"
    /\ cs[i] = "closed"
    /\ fpc' = [fpc EXCEPT ![i] = "done"]
    /\ UNCHANGED << svars, fvars, gvars, paths, provider, since, queries, pc, cs, out, wg, mpc, spawned, qpc, held,
                    stats, finalStats, results, err >>

\* forwarder i finds cs[i] closed and drained: its range loop ends, and the
\* deferred wg.Done() runs
ForwarderDone(i) ==
    /\ fpc[i] = "recv"
    /\ cs[i] = "closed"
    /\ wg' = wg - 1
    /\ fpc' = [fpc EXCEPT ![i] = "done"]
    /\ UNCHANGED << svars, fvars, gvars, paths, provider, since, queries, pc, cs, out, mpc, spawned, qpc, held, stats,
                    finalStats, results, err >>

\* "out <- stats" of forwarder i meets "for stats := range data" of FindReviewers
Receive(i) ==
    /\ pc = "range"
    /\ out = "open"
    /\ fpc[i] = "send"
    /\ stats' = held[i]
    /\ held' = [held EXCEPT ![i] = << >>]
    /\ fpc' = [fpc EXCEPT ![i] = "recv"]
    /\ pc' = "body"
    /\ UNCHANGED << svars, fvars, gvars, paths, provider, since, queries, cs, out, wg, mpc, spawned, qpc, finalStats,
                    results, err >>

\* the body of the range loop: every Stat with a non-empty Reviewer is added
MergeBody ==
    /\ pc = "body"
    /\ finalStats' = mergeStats(finalStats, stats, 1)
    /\ stats' = << >>
    /\ pc' = "range"
    /\ UNCHANGED << svars, fvars, gvars, paths, provider, since, queries, cs, out, wg, mpc, spawned, qpc, fpc, held,
                    results, err >>

\* the range loop ends when data is closed (and, being unbuffered, empty)
RangeEnd ==
    /\ pc = "range"
    /\ out = "closed"
    /\ pc' = "sort"
    /\ UNCHANGED << svars, fvars, gvars, paths, provider, since, queries, cs, out, wg, mpc, spawned, qpc, fpc, held,
                    stats, finalStats, results, err >>

\* sort.Sort(sort.Reverse(finalStats))
SortFinal ==
    /\ pc = "sort"
    /\ finalStats' \in SortReverse(finalStats)
    /\ pc' = "top"
    /\ UNCHANGED << svars, fvars, gvars, paths, provider, since, queries, cs, out, wg, mpc, spawned, qpc, fpc, held,
                    stats, results, err >>

\* the top maxStats lines are formatted; return results, nil
ReturnTop ==
    /\ pc = "top"
    /\ results' = topLines(finalStats)
    /\ err' = "nil"
    /\ pc' = "done"
    /\ UNCHANGED << svars, fvars, gvars, paths, provider, since, queries, cs, out, wg, mpc, spawned, qpc, fpc, held,
                    stats, finalStats >>

Next ==
    \/ LaunchQueries
    \/ CallMergeChans
    \/ WgAdd
    \/ SpawnForwarder
    \/ WgWait
    \/ CloseOut
    \/ \E i \in DOMAIN cs : Deliver(i)
    \/ \E i \in DOMAIN cs : QuerySkip(i)
    \/ \E i \in DOMAIN cs : QueryClose(i)
    \/ \E i \in DOMAIN cs : ForwarderDone(i)
    \/ \E i \in DOMAIN cs : Receive(i)
    \/ MergeBody
    \/ RangeEnd
    \/ SortFinal
    \/ ReturnTop

-----------------------------------------------------------------------------
(* Stat Aggregator exercised alone: the same values added in two orders    *)

StatValues == { Stat(r, c) : r \in {"alice", "bob", ""}, c \in 1..MaxCount }

AggregatorIdle ==
    /\ input = << >> /\ order = << >> /\ setA = << >> /\ setB = << >> /\ added = 0

AggregatorInit ==
    /\ input \in SeqsUpTo(StatValues, MaxAdds)
    /\ order \in Permutations(1..Len(input))
    /\ setA = << >>
    /\ setB = << >>
    /\ added = 0

\* one more value goes into each collection: setA = setA.AddToSet(val)
AddNext ==
    /\ added < Len(input)
    /\ setA' = AddToSet(setA, input[added + 1])
    /\ setB' = AddToSet(setB, input[order[added + 1]])
    /\ added' = added + 1
    /\ UNCHANGED << pvars, fvars, gvars, input, order >>

-----------------------------------------------------------------------------
(* Filter Policy exercised alone: both predicates on one path              *)

ExtEntries  == { s_go, s_json }
PathEntries == { s_vendor, s_empty }
FilterPaths ==
    { p_a_go, p_b_json, p_vendor_c_go, s_vendor, p_vendo, p_i_svg, s_empty }

FilterIdle ==
    /\ fpath = << >>
    /\ opts = [OnlyExtensions |-> << >>, IgnoredExtensions |-> << >>,
               OnlyPaths |-> << >>, IgnoredPaths |-> << >>]
    /\ fstep = "idle" /\ extOk = FALSE /\ pathOk = FALSE

FilterInit ==
    /\ fpath \in FilterPaths
    /\ opts \in [OnlyExtensions    : SeqsUpTo(ExtEntries, MaxEntries),
                 IgnoredExtensions : SeqsUpTo(ExtEntries, MaxEntries),
                 OnlyPaths         : SeqsUpTo(PathEntries, MaxEntries),
                 IgnoredPaths      : SeqsUpTo(PathEntries, MaxEntries)]
    /\ fstep = "ext"
    /\ extOk = FALSE
    /\ pathOk = FALSE

CallConsiderExt ==
    /\ fstep = "ext"
    /\ extOk' = considerExt(fpath, opts)
    /\ fstep' = "path"
    /\ UNCHANGED << pvars, svars, gvars, fpath, opts, pathOk >>

CallConsiderPath ==
    /\ fstep = "path"
    /\ pathOk' = considerPath(fpath, opts)
    /\ fstep' = "done"
    /\ UNCHANGED << pvars, svars, gvars, fpath, opts, extOk >>

-----------------------------------------------------------------------------
(* The operations on the History Provider: FindFiles, BranchBehind,        *)
(* commitTimeStamp, committerCounts                                        *)

\* strings.Split(s, "\n"): the pieces of s between the separators, the empty
\* ones included; cur is the piece being read, acc the pieces read
RECURSIVE splitLines(_, _, _, _)
splitLines(s, i, cur, acc) ==
    IF i > Len(s) THEN Append(acc, cur)
    ELSE IF s[i] = "\n" THEN splitLines(s, i + 1, << >>, Append(acc, cur))
    ELSE splitLines(s, i + 1, Append(cur, s[i]), acc)

Split(s) == splitLines(s, 1, << >>, << >>)

\* strings.TrimLeft / strings.TrimRight with a one-character cutset
RECURSIVE TrimLeft(_, _)
TrimLeft(s, c) ==
    IF Len(s) > 0 /\ s[1] = c THEN TrimLeft(SubSeq(s, 2, Len(s)), c) ELSE s

RECURSIVE TrimRight(_, _)
TrimRight(s, c) ==
    IF Len(s) > 0 /\ s[Len(s)] = c THEN TrimRight(SubSeq(s, 1, Len(s) - 1), c) ELSE s

\* strings.Trim(s, cutset) with a one-character cutset
Trim(s, c) == TrimRight(TrimLeft(s, c), c)

\* run(cmd): the output, or "" and the error
run(cmd) ==
    IF cmd.fails THEN [val |-> << >>, err |-> "error"]
    ELSE [val |-> cmd.out, err |-> "nil"]

\* the loop of FindFiles over strings.Split(out, "\n"):
\*   l := strings.Trim(line, " ")
\*   if len(l) > 0 && considerExt(line, r) && considerPath(line, r) { append l }
RECURSIVE findFilesLoop(_, _, _, _)
findFilesLoop(parts, r, i, lines) ==
    IF i > Len(parts) THEN lines
    ELSE LET line == parts[i]
             l    == Trim(line, " ")
         IN  findFilesLoop(parts, r, i + 1,
                 IF Len(l) > 0 /\ considerExt(line, r) /\ considerPath(line, r)
                 THEN Append(lines, l) ELSE lines)

\* func (r *Reviewer) FindFiles() ([]string, error)
FindFiles(diff, r) ==
    LET o == run(diff)
    IN  IF o.err # "nil" THEN [val |-> << >>, err |-> o.err]
        ELSE [val |-> findFilesLoop(Split(o.val), r, 1, << >>), err |-> o.err]

\* func commitTimeStamp(obj string) (string, error):
\*   if err != nil { return "", nil }
\*   line := strings.Split(out, "\n")[0]; return strings.Trim(line, "\""), nil
commitTimeStamp(show) ==
    LET o == run(show)
    IN  IF o.err # "nil" THEN [val |-> << >>, err |-> "nil"]
        ELSE [val |-> Trim(Split(o.val)[1], "\""), err |-> "nil"]

\* the order of the bytes that occur in timestamps
byteRank(c) == CASE c = "1" -> 1 [] c = "2" -> 2 [] OTHER -> 0

\* a < b on Go strings: bytewise, a proper prefix being the smaller
RECURSIVE stringLess(_, _, _)
stringLess(a, b, i) ==
    IF i > Len(b) THEN FALSE
    ELSE IF i > Len(a) THEN TRUE
    ELSE IF a[i] # b[i] THEN byteRank(a[i]) < byteRank(b[i])
    ELSE stringLess(a, b, i + 1)

\* func (r *Reviewer) BranchBehind() (bool, error)
BranchBehind(shows) ==
    LET m == commitTimeStamp(shows.master)
    IN  IF m.err # "nil" THEN [val |-> FALSE, err |-> m.err]
        ELSE LET c == commitTimeStamp(shows.head)
             IN  IF c.err # "nil" THEN [val |-> FALSE, err |-> c.err]
                 ELSE [val |-> stringLess(c.val, m.val, 1), err |-> "nil"]

\* the loop of committerCounts over the lines of git shortlog: a line the
\* pattern (\d+)\s*(.*)$ does not match, or whose count strconv.Atoi refuses,
\* is skipped
RECURSIVE parseShortlog(_, _, _)
parseShortlog(lines, i, acc) ==
    IF i > Len(lines) THEN acc
    ELSE parseShortlog(lines, i + 1,
             IF lines[i].matches
             THEN Append(acc, Stat(lines[i].Reviewer, lines[i].Count)) ELSE acc)

\* func committerCounts(path string) (Stats, error): the command that finds
\* the since revision, then git shortlog, then the parsing loop
committerCountsOf(cmds) ==
    IF cmds.since.fails THEN [val |-> << >>, err |-> "error"]
    ELSE LET o == run(cmds.shortlog)
         IN  IF o.err # "nil" THEN [val |-> << >>, err |-> o.err]
             ELSE [val |-> parseShortlog(o.val, 1, << >>), err |-> "nil"]

\* what git diff master HEAD --name-only can print: each name and a newline
DiffNames ==
    { p_a_go, p_b_json, p_b_json \o <<" ">>, <<" ">> \o p_vendor_c_go, <<" ", " ">> }

RECURSIVE joinLines(_, _)
joinLines(names, i) ==
    IF i > Len(names) THEN << >>
    ELSE names[i] \o <<"\n">> \o joinLines(names, i + 1)

DiffOutputs == { joinLines(names, 1) : names \in SeqsUpTo(DiffNames, MaxDiffLines) }

\* the Reviewers FindFiles is called on
FileOptions ==
    LET none == [OnlyExtensions |-> << >>, IgnoredExtensions |-> << >>,
                 OnlyPaths |-> << >>, IgnoredPaths |-> << >>]
    IN  { none,
          [none EXCEPT !.OnlyExtensions = << s_go >>],
          [none EXCEPT !.IgnoredExtensions = << s_go >>],
          [none EXCEPT !.OnlyPaths = << s_vendor >>],
          [none EXCEPT !.IgnoredPaths = << s_vendor >>] }

\* what git show --format="%ct" can print for a reference
ShowOutputs ==
    { <<"\"", "2", "\"", "\n">>,
      <<"\"", "1", "2", "\"", "\n", "\n", "x">>,
      <<"\"", "1", "\"", "\n">> }

ShowRuns ==
    { [fails |-> FALSE, out |-> o] : o \in ShowOutputs }
    \cup { [fails |-> TRUE, out |-> << >>] }

\* what git shortlog -sne can print, line by line
ShortlogLine(r, c) == [matches |-> TRUE, Reviewer |-> r, Count |-> c]
OtherLine == [matches |-> FALSE, Reviewer |-> "", Count |-> 0]

ShortlogOutputs ==
    { << >>,
      << ShortlogLine("alice", 2), OtherLine >>,
      << ShortlogLine("bob", 1), ShortlogLine("", 1), ShortlogLine("alice", 1) >> }

\* no call has returned yet
Pending == [val |-> << >>, err |-> "pending"]

ProviderIdle == call = "none" /\ gitrun = << >> /\ ret = Pending

ProviderInit ==
    /\ fpath = << >> /\ fstep = "idle" /\ extOk = FALSE /\ pathOk = FALSE
    /\ ret = Pending
    /\ \/ /\ call = "FindFiles"
          /\ gitrun \in [fails : BOOLEAN, out : DiffOutputs]
          /\ opts \in FileOptions
       \/ /\ call = "BranchBehind"
          /\ gitrun \in [master : ShowRuns, head : ShowRuns]
          /\ opts \in FileOptions
       \/ /\ call = "committerCounts"
          /\ gitrun \in [since : [fails : BOOLEAN],
                         shortlog : [fails : BOOLEAN, out : ShortlogOutputs]]
          /\ opts \in FileOptions

CallFindFiles ==
    /\ call = "FindFiles"
    /\ ret.err = "pending"
    /\ ret' = FindFiles(gitrun, opts)
    /\ UNCHANGED << pvars, svars, fvars, call, gitrun >>

CallBranchBehind ==
    /\ call = "BranchBehind"
    /\ ret.err = "pending"
    /\ ret' = BranchBehind(gitrun)
    /\ UNCHANGED << pvars, svars, fvars, call, gitrun >>

CallCommitterCounts ==
    /\ call = "committerCounts"
    /\ ret.err = "pending"
    /\ ret' = committerCountsOf(gitrun)
    /\ UNCHANGED << pvars, svars, fvars, call, gitrun >>

-----------------------------------------------------------------------------
(* Specifications                                                          *)

Init == PipelineInit /\ AggregatorIdle /\ FilterIdle /\ ProviderIdle

Spec == Init /\ [][Next]_vars

InitSet == AggregatorInit /\ PipelineIdle /\ FilterIdle /\ ProviderIdle

NextSet == AddNext

SpecSet == InitSet /\ [][NextSet]_vars

InitFilter == FilterInit /\ PipelineIdle /\ AggregatorIdle /\ ProviderIdle

NextFilter ==
    \/ CallConsiderExt
    \/ CallConsiderPath

SpecFilter == InitFilter /\ [][NextFilter]_vars

InitProvider == ProviderInit /\ PipelineIdle /\ AggregatorIdle

NextProvider ==
    \/ CallFindFiles
    \/ CallBranchBehind
    \/ CallCommitterCounts

SpecProvider == InitProvider /\ [][NextProvider]_vars

\* the pipeline under a scheduler that lets every goroutine that can take a
\* step take one eventually
\* (the histories are kept short: what is scheduled does not depend on them)
FairOutcomes ==
    { o \in ProviderOutcomes : o.fails \/ o.log \in { << >>, << Stat("alice", 2) >> } }

InitFair == Init /\ \A i \in PathIdx : provider[i] \in FairOutcomes

SpecFair == InitFair /\ [][Next]_vars /\ WF_vars(Next)

-----------------------------------------------------------------------------
(* What the claims speak of                                                *)

\* sum of the counts of the entries of s that name reviewer r
RECURSIVE SumCounts(_, _, _)
SumCounts(s, r, k) ==
    IF k > Len(s) THEN 0
    ELSE (IF s[k].Reviewer = r THEN s[k].Count ELSE 0) + SumCounts(s, r, k + 1)

\* the non-empty identities in a family of Stats values
ReviewersIn(family) ==
    UNION { { family[i][k].Reviewer : k \in 1..Len(family[i]) } : i \in DOMAIN family }
        \ {""}

\* sum of r's counts over a family of Stats values
RECURSIVE TotalIn(_, _, _)
TotalIn(family, r, i) ==
    IF i > Len(family) THEN 0
    ELSE SumCounts(family[i], r, 1) + TotalIn(family, r, i + 1)

\* what the per-path queries return
QueryFamily == [i \in DOMAIN provider |-> committerCounts(i)]

\* the histories of the paths whose query succeeds (nothing for the others)
SuccessFamily ==
    [i \in DOMAIN provider |-> IF provider[i].fails THEN << >> ELSE provider[i].log]

\* agg holds exactly one entry per reviewer of the family, with the total count
HoldsTotals(agg, family) ==
    /\ { agg[k].Reviewer : k \in 1..Len(agg) } = ReviewersIn(family)
    /\ Len(agg) = Cardinality(ReviewersIn(family))
    /\ \A k \in 1..Len(agg) : agg[k].Count = TotalIn(family, agg[k].Reviewer, 1)

\* lines are the top three of the family's reviewers by total count
TopThreeOf(lines, family) ==
    LET revs     == ReviewersIn(family)
        returned == { lines[k].reviewer : k \in 1..Len(lines) }
    IN  /\ Len(lines) = Min(3, Cardinality(revs))
        /\ Cardinality(returned) = Len(lines)
        /\ \A k \in 1..Len(lines) :
             /\ lines[k].reviewer \in revs
             /\ lines[k].count = TotalIn(family, lines[k].reviewer, 1)
             /\ lines[k].indent = "  " /\ lines[k].sep = "\t"
        /\ \A k \in 1..Len(lines) : \A m \in (k + 1)..Len(lines) :
             lines[k].count >= lines[m].count
        /\ \A r \in returned : \A q \in revs \ returned :
             TotalIn(family, r, 1) >= TotalIn(family, q, 1)

MergeLoopFinished == pc \in {"sort", "top", "done"}

\* position of reviewer r in s (0 if absent)
PosOf(s, r) == indexOfReviewer(s, r, 1)

-----------------------------------------------------------------------------
(* Claims                                                                  *)

\* C1: for every collection of per-path query results and every arrival
\* order, once the merge loop of FindReviewers has finished the aggregator
\* holds, for each reviewer with a non-empty identity, exactly the sum of that
\* reviewer's counts over all per-path results (nothing lost, nothing merged
\* twice).
C1_MergedTotals == MergeLoopFinished => HoldsTotals(finalStats, QueryFamily)

\* the scenario of the specification, with the second result arriving first
C1_Witness ==
    /\ pc = "sort"
    /\ QueryFamily = << << Stat("alice", 2) >>,
                        << Stat("bob", 1), Stat("alice", 1) >>,
                        << >> >>
    /\ finalStats = << Stat("bob", 1), Stat("alice", 3) >>

\* C2: FindReviewers returns exactly min(3, d) lines, d the number of
\* distinct non-empty reviewers merged, in non-increasing order of count, and
\* every returned reviewer's total is at least that of every reviewer left out.
C2_TopThree == pc = "done" => TopThreeOf(results, QueryFamily)

\* more than three reviewers were merged and three lines came back
C2_Witness ==
    /\ pc = "done"
    /\ Cardinality(ReviewersIn(QueryFamily)) > 3
    /\ Len(results) = 3
    /\ results[1].count > results[3].count

\* C3: ranking is stable: of two reviewers with equal total counts, the one
\* inserted into the aggregator first comes earlier in the ranked output.
\* (Stated on the step that sorts: finalStats is in insertion order before it
\* and in ranked order after it.)
C3_StableRanking ==
    [][pc = "sort" =>
         \A i \in 1..Len(finalStats) : \A j \in (i + 1)..Len(finalStats) :
             finalStats[i].Count = finalStats[j].Count =>
                 PosOf(finalStats', finalStats[i].Reviewer)
                     < PosOf(finalStats', finalStats[j].Reviewer)]_vars

\* C4: if any per-path history query fails, FindReviewers returns a non-nil
\* error to its caller.
C4_FailureSurfaced ==
    (pc = "done" /\ \E i \in DOMAIN provider : provider[i].fails) => err = "error"

\* C5: when some per-path queries fail and others succeed, the ranked
\* reviewers returned are computed from exactly the results of the successful
\* queries: a failed query contributes nothing and takes nothing away.
C5_PartialFailure ==
    ( /\ MergeLoopFinished
      /\ \E i \in DOMAIN provider : provider[i].fails
      /\ \E i \in DOMAIN provider : ~provider[i].fails )
    => /\ HoldsTotals(finalStats, SuccessFamily)
       /\ pc = "done" => TopThreeOf(results, SuccessFamily)

\* one query failed, two succeeded, and the successes were ranked
C5_Witness ==
    /\ pc = "done"
    /\ Len(paths) = 3
    /\ \E i \in DOMAIN provider : provider[i].fails
    /\ \E i, j \in DOMAIN provider :
         /\ i # j
         /\ ~provider[i].fails /\ provider[i].log = << Stat("alice", 2) >>
         /\ ~provider[j].fails /\ provider[j].log = << Stat("bob", 1), Stat("alice", 1) >>
    /\ results = << String(Stat("alice", 3)), String(Stat("bob", 1)) >>


\* the reviewer-to-count mapping of a collection, as a set of pairs
MappingOf(s) == { << s[k].Reviewer, s[k].Count >> : k \in 1..Len(s) }

\* C6: adding the same Stat values to an empty collection in any permutation
\* yields the same reviewer-to-count mapping, the per-reviewer sum (the order
\* of the entries may differ).
C6_OrderIndependentTotals ==
    added = Len(input) =>
        /\ MappingOf(setA) = MappingOf(setB)
        /\ MappingOf(setA) =
             { << input[k].Reviewer, SumCounts(input, input[k].Reviewer, 1) >> :
                 k \in 1..Len(input) }

\* three values, one reviewer twice, added in two orders that leave the
\* entries in different places
C6_Witness ==
    /\ added = 3
    /\ Len(input) = 3
    /\ Cardinality({ input[k].Reviewer : k \in 1..3 }) = 2
    /\ setA # setB

\* p ends with e / p starts with e, said without the library's index arithmetic
EndsWith(p, e)   == \E k \in 0..Len(p) : SubSeq(p, k + 1, Len(p)) = e
StartsWith(p, e) == \E k \in 0..Len(p) : SubSeq(p, 1, k) = e

ExtDecided  == fstep \in {"path", "done"}
PathDecided == fstep = "done"

\* C7: with a non-empty OnlyExtensions list, considerExt accepts a path if
\* and only if it ends with at least one OnlyExtensions entry, whatever
\* IgnoredExtensions and the built-in default ignore list contain.
C7_OnlyExtensionsExclusive ==
    (ExtDecided /\ Len(opts.OnlyExtensions) > 0) =>
        (extOk <=> \E e \in Range(opts.OnlyExtensions) : EndsWith(fpath, e))

\* a default-ignored and caller-ignored suffix accepted through the second
\* entry of the allow-list
C7_Witness ==
    /\ ExtDecided
    /\ fpath = p_b_json
    /\ opts.OnlyExtensions = << s_go, s_json >>
    /\ opts.IgnoredExtensions = << s_json >>
    /\ extOk

\* C8 as claimed: with a non-empty OnlyPaths list, considerPath rejects a path
\* exactly equal to an OnlyPaths entry that has no other entry as a prefix.
C8_ExactMatchRejected ==
    ( /\ PathDecided
      /\ Len(opts.OnlyPaths) > 0
      /\ fpath \in Range(opts.OnlyPaths)
      /\ \A e \in Range(opts.OnlyPaths) : e # fpath => ~StartsWith(fpath, e) )
    => ~pathOk

\* C8 as amended: with a non-empty OnlyPaths list, considerPath accepts a path
\* if and only if some non-empty OnlyPaths entry is a prefix of it; the
\* remainder may be empty, so a non-empty path exactly equal to an entry is
\* accepted, and only an empty entry never counts as a match.
C8_OnlyPathsPrefix ==
    (PathDecided /\ Len(opts.OnlyPaths) > 0) =>
        /\ pathOk <=> \E e \in Range(opts.OnlyPaths) :
                          e # << >> /\ StartsWith(fpath, e)
        /\ (fpath # << >> /\ fpath \in Range(opts.OnlyPaths)) => pathOk

\* a path equal to the only entry of OnlyPaths is accepted
C8_Witness ==
    /\ PathDecided
    /\ fpath = s_vendor
    /\ opts.OnlyPaths = << s_vendor >>
    /\ pathOk

\* C9 as claimed: with OnlyPaths empty and IgnoredPaths non-empty,
\* considerPath accepts a path if and only if no IgnoredPaths entry is a
\* strict prefix of it (a prefix leaving a non-empty remainder).
C9_IgnoredStrictPrefix ==
    (PathDecided /\ Len(opts.OnlyPaths) = 0 /\ Len(opts.IgnoredPaths) > 0) =>
        (pathOk <=> ~\E e \in Range(opts.IgnoredPaths) :
                        StartsWith(fpath, e) /\ Len(fpath) > Len(e))

\* C9 as amended: with OnlyPaths empty and IgnoredPaths non-empty,
\* considerPath accepts a path if and only if no non-empty IgnoredPaths entry
\* is a prefix of it, the whole path included: a path equal to an ignored
\* entry is rejected like every proper extension of one, and an empty entry
\* ignores nothing.
C9_IgnoredPathsPrefix ==
    (PathDecided /\ Len(opts.OnlyPaths) = 0 /\ Len(opts.IgnoredPaths) > 0) =>
        (pathOk <=> ~\E e \in Range(opts.IgnoredPaths) :
                        e # << >> /\ StartsWith(fpath, e))

\* a proper extension of an ignored entry is rejected although the entry
\* after it is the empty string
C9_Witness ==
    /\ PathDecided
    /\ fpath = p_vendor_c_go
    /\ opts.OnlyPaths = << >>
    /\ opts.IgnoredPaths = << s_vendor, s_empty >>
    /\ ~pathOk

NoFilters ==
    /\ opts.OnlyExtensions = << >> /\ opts.IgnoredExtensions = << >>
    /\ opts.OnlyPaths = << >> /\ opts.IgnoredPaths = << >>

\* C10: with OnlyExtensions empty, considerExt accepts a path if and only if
\* it ends with none of svg, json, nock, xml nor with any IgnoredExtensions
\* entry; so with no caller filters at all "a.go" and "vendor/c.go" are
\* accepted and "b.json" is rejected.
C10_IgnoreListWithDefaults ==
    /\ (ExtDecided /\ Len(opts.OnlyExtensions) = 0) =>
         (extOk <=> \A e \in { s_svg, s_json, s_nock, s_xml }
                              \cup Range(opts.IgnoredExtensions) :
                        ~EndsWith(fpath, e))
    /\ (PathDecided /\ NoFilters) =>
         /\ fpath \in { p_a_go, p_vendor_c_go } => (extOk /\ pathOk)
         /\ fpath = p_b_json => ~extOk

\* no caller filters: "b.json" falls to the built-in defaults
C10_Witness ==
    /\ PathDecided
    /\ NoFilters
    /\ fpath = p_b_json
    /\ ~extOk
    /\ pathOk


\* a is a subsequence of b: the elements of a occur in b in the same order
RECURSIVE IsSubsequence(_, _, _, _)
IsSubsequence(a, b, i, j) ==
    IF i > Len(a) THEN TRUE
    ELSE IF j > Len(b) THEN FALSE
    ELSE IF a[i] = b[j] THEN IsSubsequence(a, b, i + 1, j + 1)
    ELSE IsSubsequence(a, b, i, j + 1)

\* the lines of the diff, each without the blanks around it
TrimmedDiffLines ==
    LET parts == Split(gitrun.out)
    IN  [k \in 1..Len(parts) |-> Trim(parts[k], " ")]

Returned == ret.err # "pending"

FindFilesReturned == call = "FindFiles" /\ Returned /\ ~gitrun.fails

\* C11: the list returned by FindFiles is a subsequence of the diff's lines
\* in the diff's order, and every returned path is trimmed, not blank, and
\* itself accepted by the Filter Policy: considerExt and considerPath both
\* hold of the returned string.
C11_FindFilesFiltered ==
    FindFilesReturned =>
        /\ IsSubsequence(ret.val, TrimmedDiffLines, 1, 1)
        /\ \A k \in 1..Len(ret.val) :
             /\ ret.val[k] # << >>
             /\ ret.val[k][1] # " " /\ ret.val[k][Len(ret.val[k])] # " "
             /\ considerExt(ret.val[k], opts)
             /\ considerPath(ret.val[k], opts)

\* a command of the call failed
ProviderFailed ==
    \/ call = "FindFiles" /\ gitrun.fails
    \/ call = "BranchBehind" /\ (gitrun.master.fails \/ gitrun.head.fails)
    \/ call = "committerCounts" /\ (gitrun.since.fails \/ gitrun.shortlog.fails)

\* C12: whenever a History Provider operation fails (the diff, the
\* authorship query, the timestamp lookup of a reference), the operation that
\* called it (FindFiles, committerCounts, BranchBehind) returns a non-nil
\* error to its caller.
C12_ProviderErrorsReturned ==
    (Returned /\ ProviderFailed) => ret.err = "error"

\* every per-path channel is closed and its forwarder has ended with nothing in hand
AllDrained ==
    \A i \in DOMAIN cs :
        cs[i] = "closed" /\ qpc[i] = "done" /\ fpc[i] = "done" /\ held[i] = << >>

\* C13: ranking starts only after every per-path query has completed and all
\* of its results have been merged: the merged channel is closed only after
\* every per-path channel has been closed and drained by its forwarder, and
\* from the sort on nothing is left that could still be added to the
\* aggregator (no Stats in hand, no forwarder holding any, every total in).
C13_RankAfterAllMerged ==
    /\ out = "closed" => AllDrained
    /\ MergeLoopFinished =>
          /\ out = "closed"
          /\ DOMAIN cs = PathIdx
          /\ stats = << >>
          /\ \A r \in ReviewersIn(QueryFamily) :
                TotalIn(QueryFamily, r, 1) =
                    SumCounts(finalStats, r, 1)

\* three queries, all delivered and merged, and the sort about to start
C13_Witness ==
    /\ pc = "sort"
    /\ Len(paths) = 3
    /\ \A i \in PathIdx : ~provider[i].fails /\ Len(provider[i].log) > 0
    /\ Len(finalStats) >= 2

\* C14: under fair scheduling, with every per-path query delivering its
\* results and closing its channel, FindReviewers eventually returns, for
\* every number of input paths (with none it returns an empty list), and
\* no forwarder is left blocked on a send.
C14_EventuallyReturns ==
    <>( /\ pc = "done"
        /\ err = "nil"
        /\ \A i \in DOMAIN fpc : fpc[i] = "done"
        /\ (Len(paths) = 0 => results = << >>) )

\* returned after three queries, one of them failed, one with no history
C14_Witness ==
    /\ pc = "done" /\ mpc = "done"
    /\ Len(paths) = 3
    /\ provider[1].fails /\ provider[2].log = << >> /\ Len(committerCounts(3)) > 0
    /\ Len(results) = 1

\* the state of the goroutines other than the caller of FindReviewers: the
\* queries, the forwarders and the closer of mergeChans
goroutines == << qpc, fpc, mpc, cs, out, wg, spawned, held >>

\* C15: the aggregator has a single writer: in every interleaving, a step
\* that changes finalStats is a step of the consuming loop of FindReviewers
\* (its body, or the sort after it) and of nothing else: no query, forwarder
\* or closer moves in it, so no two AddToSet overlap and no goroutine of
\* mergeChans touches the aggregator.
C15_SingleWriter ==
    [][ finalStats' # finalStats =>
            /\ pc \in {"body", "sort"}
            /\ pc' # pc
            /\ goroutines' = goroutines ]_vars

\* the loop is about to merge while another forwarder holds Stats to send and
\* a third query has not yet delivered
C15_Witness ==
    /\ pc = "body" /\ Len(stats) > 0
    /\ \E i, j \in DOMAIN fpc : fpc[i] = "send" /\ qpc[j] = "send"

\* the reviewers added so far
ReviewersAdded == { input[k].Reviewer : k \in 1..added }

\* C16: after any sequence of AddToSet calls starting from an empty
\* collection, the collection has at most one entry per distinct reviewer
\* value, and its length is the number of distinct reviewers added so far.
C16_OneEntryPerReviewer ==
    /\ \A k, n \in 1..Len(setA) : setA[k].Reviewer = setA[n].Reviewer => k = n
    /\ { setA[k].Reviewer : k \in 1..Len(setA) } = ReviewersAdded
    /\ Len(setA) = Cardinality(ReviewersAdded)

\* three values added, one reviewer twice: two entries
C16_Witness ==
    /\ added = 3
    /\ input[1].Reviewer = input[3].Reviewer /\ input[1].Reviewer # input[2].Reviewer
    /\ Len(setA) = 2
    /\ setA[1].Count = input[1].Count + input[3].Count

\* a Stat with an empty reviewer has been received and gone through the loop
EmptyReviewerMerged ==
    \E i \in DOMAIN fpc :
        /\ \E k \in 1..Len(committerCounts(i)) : committerCounts(i)[k].Reviewer = ""
        /\ qpc[i] # "send" /\ fpc[i] # "send" /\ pc # "body"

\* C17: in every reachable state of FindReviewers every entry of the
\* aggregator has a non-empty reviewer identity; Stats with an empty
\* reviewer are dropped at merge time: they are in no returned line, and
\* each line's count is what the non-empty Stats of its reviewer give.
C17_NoEmptyReviewer ==
    /\ \A k \in 1..Len(finalStats) : finalStats[k].Reviewer # ""
    /\ \A k \in 1..Len(results) :
         /\ results[k].reviewer # ""
         /\ results[k].count = TotalIn(QueryFamily, results[k].reviewer, 1)

\* a result with an empty reviewer was merged, and the lines returned
C17_Witness ==
    /\ pc = "done"
    /\ EmptyReviewerMerged
    /\ Len(results) = 3

\* the totals of the family's reviewers are pairwise distinct
DistinctTotals(family) ==
    \A r, q \in ReviewersIn(family) :
        TotalIn(family, r, 1) = TotalIn(family, q, 1) => r = q

\* the reviewers of the family with a total above r's
AheadOf(family, r) ==
    { q \in ReviewersIn(family) : TotalIn(family, q, 1) > TotalIn(family, r, 1) }

\* the one list the per-path results determine when no two totals are equal:
\* at place k the reviewer with k - 1 reviewers ahead
RankingOf(family) ==
    [k \in 1..Min(maxStats, Cardinality(ReviewersIn(family))) |->
        LET r == CHOOSE q \in ReviewersIn(family) :
                     Cardinality(AheadOf(family, q)) = k - 1
        IN  String(Stat(r, TotalIn(family, r, 1)))]

\* C18: the output of FindReviewers depends on arrival order only through
\* ties: whenever the merged reviewers' totals are pairwise distinct, the
\* returned list is the one list fixed by the per-path results, whatever
\* the order in which the queries completed and were merged.
C18_OrderOnlyThroughTies ==
    (pc = "done" /\ DistinctTotals(QueryFamily)) => results = RankingOf(QueryFamily)

\* bob's Stat entered the aggregator before alice's, and alice is returned first
C18_Witness ==
    /\ pc = "done"
    /\ Len(paths) = 2
    /\ committerCounts(1) = << Stat("bob", 1), Stat("alice", 1) >>
    /\ committerCounts(2) = << Stat("alice", 2) >>
    /\ results = << String(Stat("alice", 3)), String(Stat("bob", 1)) >>

\* C19: FindReviewers issues exactly one history query per element of its
\* input path list, and the lower time bound each query applies is the
\* configured Since value of the Reviewer.
C19_OneQueryPerPathSince ==
    pc \notin {"idle", "start"} =>
        /\ Len(queries) = Len(paths)
        /\ \A i \in 1..Len(queries) :
             queries[i].path = paths[i] /\ queries[i].since = since

\* the forwarders that have started and not yet ended
RunningForwarders == { i \in DOMAIN fpc : fpc[i] \in {"recv", "send"} }

\* the forwarders that the goroutine of mergeChans has yet to start
UnstartedForwarders == { i \in DOMAIN fpc : fpc[i] = "none" }

\* C20: in every interleaving the channel returned by mergeChans is closed
\* once (by the one deferred close, after which the closing goroutine is
\* over) and no forwarder sends on it once it is closed: the close happens
\* only after the wait group has reached zero, and the wait group was
\* raised by the number of input channels before any forwarder started, so
\* it counts the forwarders that have not ended and never goes below zero.
C20_CloseAfterForwarders ==
    /\ wg >= 0
    /\ (out = "closed") = (mpc = "done")
    /\ mpc \in {"close", "done"} =>
          /\ wg = 0
          /\ \A i \in DOMAIN fpc : fpc[i] = "done" /\ held[i] = << >>
    /\ mpc \in {"none", "add"} => wg = 0 /\ RunningForwarders = {}
    /\ mpc \in {"spawn", "wait"} =>
          wg = Cardinality(RunningForwarders) + Cardinality(UnstartedForwarders)

\* the channel is closed after three forwarders have sent and ended
C20_Witness ==
    /\ out = "closed" /\ pc = "range"
    /\ Len(cs) = 3
    /\ Len(finalStats) >= 2

====
